---- MODULE Spec2Model ----
(***************************************************************************)
(* Model of app.py: the IMDb listing scraper.                              *)
(*                                                                         *)
(* Text is a sequence of one-character strings, so that the regular        *)
(* expressions of the source are computed character by character.          *)
(* A parsed document is a sequence of element nodes in document order; an  *)
(* element reference is its index in that sequence, and str(el) / hash(el) *)
(* / el == other are functions of the node's markup, as in BeautifulSoup.  *)
(***************************************************************************)
EXTENDS Integers, Sequences, FiniteSets, TLC

\* Python's None for an optional value; a present value n is <<n>>, and a
\* present text is the text itself (the source treats "" and None alike).
None == <<>>

Some(n) == <<n>>

(***************************************************************************)
(* Characters and the regex building blocks                                *)
(***************************************************************************)
IsDigit(c) == c \in {"0", "1", "2", "3", "4", "5", "6", "7", "8", "9"}

IsSpace(c) == c = " "

\* \w of the re module: letters, digits and the underscore.
IsWord(c) == c \notin {" ", ".", ",", "(", ")", "/", "+", "-"}

DigitVal(c) ==
    CASE c = "0" -> 0 [] c = "1" -> 1 [] c = "2" -> 2 [] c = "3" -> 3
      [] c = "4" -> 4 [] c = "5" -> 5 [] c = "6" -> 6 [] c = "7" -> 7
      [] c = "8" -> 8 [] c = "9" -> 9

\* int(s) for a string of digits.
RECURSIVE ToInt(_)
ToInt(ds) ==
    IF ds = <<>> THEN 0
    ELSE ToInt(SubSeq(ds, 1, Len(ds) - 1)) * 10 + DigitVal(ds[Len(ds)])

\* str(n) for n >= 0.
DigitChar(d) == <<"0", "1", "2", "3", "4", "5", "6", "7", "8", "9">>[d + 1]

RECURSIVE IntToStr(_)
IntToStr(n) ==
    IF n < 10 THEN <<DigitChar(n)>>
    ELSE Append(IntToStr(n \div 10), DigitChar(n % 10))

\* str.lower(), one character.
LowerChar(c) ==
    CASE c = "A" -> "a" [] c = "B" -> "b" [] c = "H" -> "h" [] c = "M" -> "m"
      [] c = "I" -> "i" [] c = "N" -> "n" [] OTHER -> c

Lower(s) == [i \in 1..Len(s) |-> LowerChar(s[i])]

\* str.strip()
RECURSIVE LStrip(_)
LStrip(s) == IF s # <<>> /\ IsSpace(s[1]) THEN LStrip(Tail(s)) ELSE s

RECURSIVE RStrip(_)
RStrip(s) ==
    IF s # <<>> /\ IsSpace(s[Len(s)]) THEN RStrip(SubSeq(s, 1, Len(s) - 1)) ELSE s

Strip(s) == RStrip(LStrip(s))

\* One past the end of the longest run of digits that starts at i.
RECURSIVE RunEnd(_, _)
RunEnd(s, i) == IF i <= Len(s) /\ IsDigit(s[i]) THEN RunEnd(s, i + 1) ELSE i

\* \s* from i: the first index that holds no whitespace.
RECURSIVE SkipWs(_, _)
SkipWs(s, i) == IF i <= Len(s) /\ IsSpace(s[i]) THEN SkipWs(s, i + 1) ELSE i

\* The literal u at index i.
LitAt(s, i, u) == i + Len(u) - 1 <= Len(s) /\ SubSeq(s, i, i + Len(u) - 1) = u

\* \b between index i - 1 and index i.
Boundary(s, i) ==
    LET before == i > 1 /\ i - 1 <= Len(s) /\ IsWord(s[i - 1])
        after  == i >= 1 /\ i <= Len(s) /\ IsWord(s[i])
    IN  before # after

\* The least index of a set of match positions, or 0 when there is none:
\* re.search scans left to right.
First(S) == IF S = {} THEN 0 ELSE CHOOSE i \in S : \A j \in S : i <= j

\* re.search(r"(\d+)\s*<unit>", s): group 1, or None.
NumUnitAt(s, i, unit) == IsDigit(s[i]) /\ LitAt(s, SkipWs(s, RunEnd(s, i)), unit)

SearchNumUnit(s, unit) ==
    LET i0 == First({i \in 1..Len(s) : NumUnitAt(s, i, unit)})
    IN  IF i0 = 0 THEN None ELSE SubSeq(s, i0, RunEnd(s, i0) - 1)

\* \b\d{2,3}\b at index i.
BareNumAt(s, i) ==
    /\ IsDigit(s[i])
    /\ Boundary(s, i)
    /\ RunEnd(s, i) - i \in {2, 3}
    /\ Boundary(s, RunEnd(s, i))

\* re.search(r"\b(\d{2,3})\b", s): group 1, or None.
SearchBareNum(s) ==
    LET i0 == First({i \in 1..Len(s) : BareNumAt(s, i)})
    IN  IF i0 = 0 THEN None ELSE SubSeq(s, i0, RunEnd(s, i0) - 1)

(***************************************************************************)
(* Helpers (lines 56-103)                                                  *)
(***************************************************************************)
\* _runtime_to_minutes: None or <<minutes>>.
runtime_to_minutes(rt) ==
    IF rt = <<>> THEN None
    ELSE LET mh == SearchNumUnit(rt, <<"h">>)
             mm == SearchNumUnit(rt, <<"m", "i", "n">>)
             mnum == SearchBareNum(rt)
             hours == IF mh # None THEN ToInt(mh) ELSE 0
             minutes == IF mm # None THEN ToInt(mm) ELSE 0
             total == hours * 60 + minutes
         IN  IF mm = None /\ mh = None /\ mnum # None
             THEN Some(ToInt(mnum))
             ELSE IF total > 0 THEN Some(total) ELSE None

\* Python truthiness of an optional int: None and 0 are falsy.
Truthy(v) == v # None /\ v[1] # 0

\* (19\d{2}|20\d{2}|21\d{2}) at index i.
YearAt(s, i) ==
    /\ i + 3 <= Len(s)
    /\ SubSeq(s, i, i + 1) \in {<<"1", "9">>, <<"2", "0">>, <<"2", "1">>}
    /\ IsDigit(s[i + 2])
    /\ IsDigit(s[i + 3])

\* _extract_year: None or <<year>>.
extract_year(text) ==
    IF text = <<>> THEN None
    ELSE LET i0 == First({i \in 1..Len(text) : YearAt(text, i)})
         IN  IF i0 = 0 THEN None ELSE Some(ToInt(SubSeq(text, i0, i0 + 3)))

(***************************************************************************)
(* _extract_from_container (lines 153-284)                                 *)
(*                                                                         *)
(* An item's content is what the lookups of the extractor return on it:    *)
(*   tsel  the text of select_one for each of the 5 title selectors        *)
(*   ysel  the text of each of the 4 year candidates                       *)
(*   rsel  the text of each of the 4 runtime candidates                    *)
(*   text  el.get_text(" ", strip=True)                                    *)
(*   age, rating, votes  the values the remaining three cascades resolve   *)
(*   fault whether a lookup on this markup raises                          *)
(* <<>> for a selector stands for no match or an empty text: the source    *)
(* passes over both.                                                       *)
(***************************************************************************)
\* The first candidate with a non-empty text (lines 169-173).
RECURSIVE FirstNonEmpty(_, _)
FirstNonEmpty(cands, k) ==
    IF k > Len(cands) THEN <<>>
    ELSE IF cands[k] # <<>> THEN cands[k]
    ELSE FirstNonEmpty(cands, k + 1)

\* re.sub(r"^\d+\.\s*", "", title)
StripOrdinal(t) ==
    LET e == RunEnd(t, 1)
    IN  IF t # <<>> /\ IsDigit(t[1]) /\ LitAt(t, e, <<".">>)
        THEN SubSeq(t, SkipWs(t, e + 1), Len(t))
        ELSE t

\* Lines 160-175 and 278: the Title, "" when none resolves.
extract_title(tsel) ==
    LET title == FirstNonEmpty(tsel, 1)
    IN  IF title # <<>> THEN Strip(StripOrdinal(title)) ELSE <<>>

\* Lines 186-190: the loop over the year candidates.
RECURSIVE YearLoop(_, _, _)
YearLoop(cands, k, cur) ==
    IF k > Len(cands) THEN cur
    ELSE IF cands[k] # <<>>
         THEN LET y == extract_year(cands[k])
              IN  IF Truthy(y) THEN y ELSE YearLoop(cands, k + 1, y)
         ELSE YearLoop(cands, k + 1, cur)

\* Lines 177-193.
extract_year_field(ysel, text) ==
    LET year == YearLoop(ysel, 1, None)
    IN  IF ~Truthy(year) THEN extract_year(text) ELSE year

\* Lines 203-207: the loop over the runtime candidates.  The last value
\* assigned stays in duration when no candidate is truthy.
RECURSIVE DurationLoop(_, _, _)
DurationLoop(cands, k, cur) ==
    IF k > Len(cands) THEN cur
    ELSE IF cands[k] # <<>>
         THEN LET d == runtime_to_minutes(cands[k])
              IN  IF Truthy(d) THEN d ELSE DurationLoop(cands, k + 1, d)
         ELSE DurationLoop(cands, k + 1, cur)

\* The end of the match of line 210's pattern at index i of the lowered
\* text (re.I), alternatives in their order; 0 when none matches.
DurAlt1End(lt, i) ==
    LET e == RunEnd(lt, i)
        k == RunEnd(lt, SkipWs(lt, e + 1))
    IN  IF IsDigit(lt[i]) /\ LitAt(lt, e, <<"h">>) /\ LitAt(lt, k, <<"m", "i", "n">>)
        THEN k + 2 ELSE 0

DurAlt2End(lt, i) ==
    LET j == SkipWs(lt, RunEnd(lt, i))
    IN  IF IsDigit(lt[i]) /\ LitAt(lt, j, <<"m", "i", "n">>) THEN j + 2 ELSE 0

DurAlt3End(lt, i) ==
    LET j == SkipWs(lt, RunEnd(lt, i))
    IN  IF BareNumAt(lt, i) /\ LitAt(lt, j, <<"m", "i", "n">>) THEN j + 2 ELSE 0

DurAlt4End(lt, i) ==
    LET e == RunEnd(lt, i)
    IN  IF BareNumAt(lt, i) /\ ~LitAt(lt, SkipWs(lt, e), <<"v", "o", "t", "e", "s">>)
        THEN e - 1 ELSE 0

DurMatchEnd(lt, i) ==
    IF DurAlt1End(lt, i) # 0 THEN DurAlt1End(lt, i)
    ELSE IF DurAlt2End(lt, i) # 0 THEN DurAlt2End(lt, i)
    ELSE IF DurAlt3End(lt, i) # 0 THEN DurAlt3End(lt, i)
    ELSE DurAlt4End(lt, i)

\* re.search of line 210: group 1, or None.
SearchDuration(text) ==
    LET lt == Lower(text)
        i0 == First({i \in 1..Len(lt) : DurMatchEnd(lt, i) # 0})
    IN  IF i0 = 0 THEN None ELSE SubSeq(text, i0, DurMatchEnd(lt, i0))

\* Lines 208-212: the regex fallback over the item's text.
DurationFromText(cur, text) ==
    IF ~Truthy(cur)
    THEN LET m == SearchDuration(text)
         IN  IF m # None THEN runtime_to_minutes(m) ELSE cur
    ELSE cur

\* Lines 195-212.
extract_duration(rsel, text) == DurationFromText(DurationLoop(rsel, 1, None), text)

\* Lines 277-284: the record of one item.
extract_from_container(c) ==
    [Title    |-> extract_title(c.tsel),
     Year     |-> extract_year_field(c.ysel, c.text),
     Duration |-> extract_duration(c.rsel, c.text),
     Age      |-> c.age,
     Rating   |-> c.rating,
     Votes    |-> c.votes]

(***************************************************************************)
(* Documents                                                               *)
(***************************************************************************)
\* The length of the selector list of lines 115-124.
NumSelectors == 8

\* The most element nodes a modelled document holds.
MaxNodes == 3

\* The most element nodes in the body of a 3xx response.
MaxRedirectBody == 1

Y1999 == <<"(", "1", "9", "9", "9", ")">>

\* The item contents of the modelled pages, by name.
Content(name) ==
    CASE name = "A1999" ->
           \* <a href="/title/tt1/">A</a> (1999) 142 min
           [tsel |-> << <<>>, <<>>, <<>>, <<>>, <<"A">> >>,
            ysel |-> << <<>>, <<>>, <<>>, Y1999 >>,
            rsel |-> << <<>>, <<>>, <<>>, <<>> >>,
            text |-> <<"A", " ">> \o Y1999 \o <<" ", "1", "4", "2", " ", "m", "i", "n">>,
            age |-> <<>>, rating |-> <<"8.5">>, votes |-> <<>>, fault |-> FALSE]
      [] name = "a1999" ->
           \* a table row: td.titleColumn a = "1. a", span.secondaryInfo,
           \* span.runtime = "2h 22min", a rating and a vote count
           [tsel |-> << <<"1", ".", " ", "a">>, <<>>, <<>>, <<>>, <<"1", ".", " ", "a">> >>,
            ysel |-> << Y1999, <<>>, <<>>, Y1999 >>,
            rsel |-> << <<"2", "h", " ", "2", "2", "m", "i", "n">>,
                        <<"2", "h", " ", "2", "2", "m", "i", "n">>, <<>>, <<>> >>,
            text |-> <<"1", ".", " ", "a", " ">> \o Y1999
                       \o <<" ", "2", "h", " ", "2", "2", "m", "i", "n">>,
            age |-> <<"R">>, rating |-> <<"9.0">>, votes |-> <<2000000>>, fault |-> FALSE]
      [] name = "untitled" ->
           \* no title link, every other field resolves
           [tsel |-> << <<>>, <<>>, <<>>, <<>>, <<>> >>,
            ysel |-> << <<>>, <<>>, <<>>, Y1999 >>,
            rsel |-> << <<>>, <<"9", "0", " ", "m", "i", "n">>, <<>>, <<"9", "0", " ", "m", "i", "n">> >>,
            text |-> Y1999 \o <<" ", "9", "0", " ", "m", "i", "n">>,
            age |-> <<"P", "G">>, rating |-> <<"7.1">>, votes |-> <<1234>>, fault |-> FALSE]
      [] name = "Abare" ->
           \* a title link and nothing else
           [tsel |-> << <<>>, <<"A">>, <<>>, <<>>, <<"A">> >>,
            ysel |-> << <<>>, <<>>, <<>>, <<>> >>,
            rsel |-> << <<>>, <<>>, <<>>, <<>> >>,
            text |-> <<"A">>,
            age |-> <<>>, rating |-> <<>>, votes |-> <<>>, fault |-> FALSE]
      [] name = "ordinal" ->
           \* the first title link holds the rank alone: "12."
           [tsel |-> << <<"1", "2", ".">>, <<>>, <<>>, <<>>, <<"1", "2", ".">> >>,
            ysel |-> << <<>>, <<"2", "0", "0", "0">>, <<>>, <<>> >>,
            rsel |-> << <<>>, <<>>, <<>>, <<>> >>,
            text |-> <<"1", "2", ".", " ", "B", " ", "2", "0", "0", "0">>,
            age |-> <<>>, rating |-> <<"6.0">>, votes |-> <<>>, fault |-> FALSE]
      [] name = "broken" ->
           \* markup on which a lookup of the extractor raises
           [tsel |-> << <<>>, <<>>, <<>>, <<>>, <<"B">> >>,
            ysel |-> << <<>>, <<>>, <<>>, <<>> >>,
            rsel |-> << <<>>, <<>>, <<>>, <<>> >>,
            text |-> <<"B">>,
            age |-> <<>>, rating |-> <<>>, votes |-> <<>>, fault |-> TRUE]

ContentNames == {"A1999", "a1999", "untitled", "Abare", "ordinal", "broken"}

\* An element node: pats, the structural selectors (1..NumSelectors) that
\* match it; anch, the number of a[href^='/title/tt'] anchors whose nearest
\* li/div/tr/article/section ancestor (or parent) it is; mk, its content.
\* The node record is the node's markup: two nodes with equal records
\* serialise to the same string.
Nodes ==
    [pats : {{}}, anch : {0}, mk : {"A1999"}]
      \cup [pats : {{}}, anch : {2}, mk : ContentNames]
      \cup [pats : {{4}}, anch : {1}, mk : ContentNames]
      \cup [pats : {{3, 7}}, anch : {0}, mk : ContentNames]

Docs(n) == UNION {[1..k -> Nodes] : k \in 0..n}

\* What _extract_from_container returns on each content.
Records == [name \in ContentNames |-> extract_from_container(Content(name))]

\* Whether _extract_from_container raises on each content.
Raises == [name \in ContentNames |-> Content(name).fault]

(***************************************************************************)
(* _gather_candidate_containers (lines 109-150)                            *)
(***************************************************************************)
\* Matches with selector 3 loosened to its tag: "div" for "div.list_item".
RECURSIVE MatchesLoose(_, _, _)
MatchesLoose(d, sel, k) ==
    IF k > Len(d) THEN <<>>
    ELSE (IF sel \in d[k].pats \/ sel = 3 THEN <<k>> ELSE <<>>)
           \o MatchesLoose(d, sel, k + 1)

\* soup.select(sel): the indices of the matching nodes, in document order.
RECURSIVE Matches(_, _, _)
Matches(d, sel, k) ==
    IF k > Len(d) THEN <<>>
    ELSE (IF sel \in d[k].pats THEN <<k>> ELSE <<>>) \o Matches(d, sel, k + 1)

\* Lines 126-130: every selector's matches, appended in list order.
RECURSIVE Pool(_, _)
Pool(d, sel) ==
    IF sel > NumSelectors THEN <<>> ELSE Matches(d, sel, 1) \o Pool(d, sel + 1)

\* k copies of x.
Repeat(x, k) == [j \in 1..k |-> x]

\* For each a[href^='/title/tt'] anchor in document order, the node that
\* a.find_parent([...]) or a.parent gives (lines 134-137, 309-312).
RECURSIVE AnchorParents(_, _)
AnchorParents(d, k) ==
    IF k > Len(d) THEN <<>>
    ELSE Repeat(k, d[k].anch) \o AnchorParents(d, k + 1)

\* hash(el): bs4's Tag hashes its serialisation, and Tag.__eq__ compares
\* name, attributes and contents.
Hash(d, el) == d[el]

\* Lines 135-140: parents, with "p not in parents" decided by Tag.__eq__.
RECURSIVE DistinctParents(_, _, _, _)
DistinctParents(d, els, k, acc) ==
    IF k > Len(els) THEN acc
    ELSE DistinctParents(d, els, k + 1,
           IF \E j \in 1..Len(acc) : d[acc[j]] = d[els[k]]
           THEN acc ELSE Append(acc, els[k]))

\* Lines 142-149: first-seen order, one element per hash.
RECURSIVE Uniq(_, _, _, _)
Uniq(d, els, k, acc) ==
    IF k > Len(els) THEN acc
    ELSE Uniq(d, els, k + 1,
           IF \E j \in 1..Len(acc) : Hash(d, acc[j]) = Hash(d, els[k])
           THEN acc ELSE Append(acc, els[k]))

gather_candidate_containers(d) ==
    LET found == Pool(d, 1)
    IN  IF found = <<>>
        THEN Uniq(d, DistinctParents(d, AnchorParents(d, 1), 1, <<>>), 1, <<>>)
        ELSE Uniq(d, found, 1, <<>>)

(***************************************************************************)
(* scrape_imdb_generic (lines 287-343)                                     *)
(***************************************************************************)
\* raise_for_status left out of _get_soup.
raise_for_status_never(code) == FALSE

\* Line 34: requests raises HTTPError for a 4xx or 5xx status.
raise_for_status(code) == code >= 400 /\ code < 600

\* TryExtract without the test of line 300.
TryExtractKeepAll(rs, d, el) ==
    IF Raises[d[el].mk] THEN rs ELSE Append(rs, Records[d[el].mk])

\* Lines 297-303 and 317-322: one pass of a loop body over element el.
TryExtract(rs, d, el) ==
    IF Raises[d[el].mk] THEN rs
    ELSE LET data == Records[d[el].mk]
         IN  IF data.Title # <<>> THEN Append(rs, data) ELSE rs

\* ExtractAll with the try around the loop: the first exception ends it.
RECURSIVE ExtractAllAbort(_, _, _, _)
ExtractAllAbort(d, els, k, rs) ==
    IF k > Len(els) \/ Raises[d[els[k]].mk] THEN rs
    ELSE ExtractAllAbort(d, els, k + 1, TryExtract(rs, d, els[k]))

\* Lines 295-303: the loop over the containers.
RECURSIVE ExtractAll(_, _, _, _)
ExtractAll(d, els, k, rs) ==
    IF k > Len(els) THEN rs
    ELSE ExtractAll(d, els, k + 1, TryExtract(rs, d, els[k]))

\* The fallback of line 308 run unconditionally.
AlwaysFallback(rs) == TRUE

\* Line 308
NeedFallback(rs) == rs = <<>>

\* Lines 309-322: the loop over the anchors, one extraction per hash.
RECURSIVE FallbackAll(_, _, _, _, _)
FallbackAll(d, els, k, seen, rs) ==
    IF k > Len(els) THEN rs
    ELSE IF Hash(d, els[k]) \in seen
         THEN FallbackAll(d, els, k + 1, seen, rs)
         ELSE FallbackAll(d, els, k + 1, seen \cup {Hash(d, els[k])},
                          TryExtract(rs, d, els[k]))

\* Line 325
Cols == <<"No.", "Title", "Year", "Duration", "Age", "Rating", "Votes">>

\* Title_norm without .str.lower().
Title_norm_cased(t) == Strip(t)

\* Line 335
Title_norm(t) == Lower(Strip(t))

\* Line 336: fillna("").astype(str).  A column of years with a missing
\* value among them is a float column, all of whose numbers print as
\* "1999.0"; with every year missing it is a column of "".
Year_norm(rs, i) ==
    LET mixed == \E j \in 1..Len(rs) : rs[j].Year = None
    IN  IF rs[i].Year = None THEN <<>>
        ELSE IF mixed THEN IntToStr(rs[i].Year[1]) \o <<".", "0">>
        ELSE IntToStr(rs[i].Year[1])

DupKey(rs, i) == <<Title_norm(rs[i].Title), Year_norm(rs, i)>>

\* drop_duplicates with keep="last".
RECURSIVE drop_duplicates_last(_, _)
drop_duplicates_last(rs, k) ==
    IF k > Len(rs) THEN <<>>
    ELSE (IF \E j \in (k + 1)..Len(rs) :
                <<Lower(Strip(rs[j].Title)), rs[j].Year>> = <<Lower(Strip(rs[k].Title)), rs[k].Year>>
          THEN <<>> ELSE <<rs[k]>>) \o drop_duplicates_last(rs, k + 1)

\* Line 337: drop_duplicates(subset=[Title_norm, Year_norm], keep="first")
RECURSIVE drop_duplicates(_, _)
drop_duplicates(rs, k) ==
    IF k > Len(rs) THEN <<>>
    ELSE (IF \E j \in 1..(k - 1) : DupKey(rs, j) = DupKey(rs, k)
          THEN <<>> ELSE <<rs[k]>>) \o drop_duplicates(rs, k + 1)

\* Line 341: df.insert(0, "No.", range(1, len(df) + 1))
NumberRows(rs) ==
    [k \in 1..Len(rs) |->
       [c \in {Cols[j] : j \in 1..Len(Cols)} |-> IF c = "No." THEN k ELSE rs[k][c]]]

\* Frame with the numbering of line 341 done before line 337.
FrameNumberFirst(rs) ==
    IF rs = <<>>
    THEN [columns |-> Cols, data |-> <<>>]
    ELSE [columns |-> Cols, data |-> drop_duplicates(NumberRows(rs), 1)]

\* Lines 325-341: the DataFrame, its columns and its rows.
Frame(rs) ==
    IF rs = <<>>
    THEN [columns |-> Cols, data |-> <<>>]
    ELSE [columns |-> <<"No.">> \o <<"Title", "Year", "Duration", "Age", "Rating", "Votes">>,
          data |-> NumberRows(drop_duplicates(rs, 1))]

NoFrame == [columns |-> <<>>, data |-> <<>>]

(***************************************************************************)
(* State                                                                   *)
(***************************************************************************)
VARIABLES
    pc,          \* where the run of the script is
    status,      \* the status code of the response, 0 before the GET
    doc,         \* the parsed document
    containers,  \* the Locator's result (element indices)
    locMode,     \* which branch of the Locator filled the pool
    rows,        \* the list rows of scrape_imdb_generic
    fellBack,    \* whether the branch of line 308 was taken
    df,          \* the DataFrame returned
    exc,         \* the exception that left scrape_imdb_generic
    ui,          \* what the page shows
    dpc,         \* where the Duration cascade of one item is
    ditem,       \* the item of the Duration cascade
    duration     \* the local variable duration

vars == <<pc, status, doc, containers, locMode, rows, fellBack, df, exc, ui,
          dpc, ditem, duration>>

scrapeVars == <<pc, status, doc, containers, locMode, rows, fellBack, df, exc, ui>>

durVars == <<dpc, ditem, duration>>

\* The status codes of the modelled responses.
Statuses == {200, 304, 404, 503}

ScrapeIdle ==
    /\ pc = "idle"
    /\ status = 0
    /\ doc = <<>>
    /\ containers = <<>>
    /\ locMode = "none"
    /\ rows = <<>>
    /\ fellBack = FALSE
    /\ df = NoFrame
    /\ exc = "none"
    /\ ui = "form"

DurIdle ==
    /\ dpc = "off"
    /\ ditem = [rsel |-> <<>>, text |-> <<>>]
    /\ duration = None

Init == ScrapeIdle /\ DurIdle

\* Lines 418-426 and 32-35: the button is pressed, the GET answers with a
\* status that raise_for_status accepts, and the body is parsed.
GetSoup ==
    /\ pc = "idle"
    /\ \E code \in Statuses, d \in Docs(MaxNodes) :
         /\ ~raise_for_status(code)
         /\ code \notin 200..299 => Len(d) <= MaxRedirectBody
         /\ status' = code
         /\ doc' = d
    /\ pc' = "soup"
    /\ UNCHANGED <<containers, locMode, rows, fellBack, df, exc, ui, durVars>>

\* Line 34 raises: nothing in scrape_imdb_generic catches it.
GetSoupRaises ==
    /\ pc = "idle"
    /\ \E code \in Statuses :
         /\ raise_for_status(code)
         /\ status' = code
    /\ exc' = "HTTPError"
    /\ pc' = "raised"
    /\ UNCHANGED <<doc, containers, locMode, rows, fellBack, df, ui, durVars>>

\* Line 293
Gather ==
    /\ pc = "soup"
    /\ containers' = gather_candidate_containers(doc)
    /\ locMode' = IF Pool(doc, 1) = <<>> THEN "anchors" ELSE "selectors"
    /\ pc' = "gathered"
    /\ UNCHANGED <<status, doc, rows, fellBack, df, exc, ui, durVars>>

\* Lines 295-303
ExtractContainers ==
    /\ pc = "gathered"
    /\ rows' = ExtractAll(doc, containers, 1, <<>>)
    /\ pc' = "extracted"
    /\ UNCHANGED <<status, doc, containers, locMode, fellBack, df, exc, ui, durVars>>

\* Lines 308-322
Fallback ==
    /\ pc = "extracted"
    /\ NeedFallback(rows)
    /\ rows' = FallbackAll(doc, AnchorParents(doc, 1), 1, {}, rows)
    /\ fellBack' = TRUE
    /\ pc' = "rows"
    /\ UNCHANGED <<status, doc, containers, locMode, df, exc, ui, durVars>>

SkipFallback ==
    /\ pc = "extracted"
    /\ ~NeedFallback(rows)
    /\ pc' = "rows"
    /\ UNCHANGED <<status, doc, containers, locMode, rows, fellBack, df, exc, ui, durVars>>

\* Lines 325-343
Return ==
    /\ pc = "rows"
    /\ df' = Frame(rows)
    /\ pc' = "returned"
    /\ UNCHANGED <<status, doc, containers, locMode, rows, fellBack, exc, ui, durVars>>

\* Lines 427-429
ShowError ==
    /\ pc = "raised"
    /\ ui' = "error"
    /\ pc' = "stopped"
    /\ UNCHANGED <<status, doc, containers, locMode, rows, fellBack, df, exc, durVars>>

\* Lines 433-434
ShowWarning ==
    /\ pc = "returned"
    /\ df.data = <<>>
    /\ ui' = "warning"
    /\ pc' = "shown"
    /\ UNCHANGED <<status, doc, containers, locMode, rows, fellBack, df, exc, durVars>>

\* Lines 435-449
ShowTable ==
    /\ pc = "returned"
    /\ df.data # <<>>
    /\ ui' = "table"
    /\ pc' = "shown"
    /\ UNCHANGED <<status, doc, containers, locMode, rows, fellBack, df, exc, durVars>>

Next ==
    \/ GetSoup
    \/ GetSoupRaises
    \/ Gather
    \/ ExtractContainers
    \/ Fallback
    \/ SkipFallback
    \/ Return
    \/ ShowError
    \/ ShowWarning
    \/ ShowTable

Spec == Init /\ [][Next]_vars

(***************************************************************************)
(* The Duration cascade of one item, step by step (lines 195-212)          *)
(***************************************************************************)
RtTexts ==
    { <<"2", "h", " ", "2", "2", "m", "i", "n">>,
      <<"1", "4", "2", " ", "m", "i", "n">>,
      <<"1", "4", "2">>,
      <<"1", "h", " ", "3", "0", "m">>,
      <<"0", "0">>,
      <<"0", " ", "m", "i", "n">>,
      <<"0", "h">>,
      <<"n", "/", "a">> }

OtherTexts ==
    { <<>>,
      <<"A">>,
      <<"A", " ", "0", "0", "0">>,
      <<"A", " ", "9", "0", " ", "v", "o", "t", "e", "s">>,
      <<"A", " ", "2", "H", " ", "5", "M", "I", "N">>,
      <<"A", " ", "1", "9", "9", "9">> }

\* get_text(" ", strip=True): the item's strings joined by one space.
Join(a, b) == IF a = <<>> THEN b ELSE IF b = <<>> THEN a ELSE a \o <<" ">> \o b

\* The runtime candidates of an item whose one runtime-classed element
\* is a span, an li or a div holding rt (lines 197-202).
RuntimeCandidates(kind, rt) ==
    CASE kind = "span" -> <<rt, rt, <<>>, <<>>>>
      [] kind = "li"   -> <<<<>>, rt, rt, <<>>>>
      [] kind = "div"  -> <<<<>>, rt, <<>>, rt>>
      [] OTHER         -> <<<<>>, <<>>, <<>>, <<>>>>

DurItems ==
    {[rsel |-> RuntimeCandidates(kind, rt), text |-> Join(other, rt)] :
        kind \in {"span", "li", "div"}, rt \in RtTexts, other \in OtherTexts}
      \cup {[rsel |-> RuntimeCandidates("none", <<>>), text |-> other] :
              other \in OtherTexts}

InitDuration ==
    /\ ScrapeIdle
    /\ dpc = "start"
    /\ ditem \in DurItems
    /\ duration = None

\* Lines 196-207
DurSelectors ==
    /\ dpc = "start"
    /\ duration' = DurationLoop(ditem.rsel, 1, None)
    /\ dpc' = "looped"
    /\ UNCHANGED <<ditem, scrapeVars>>

\* Line 208, duration truthy
DurKeep ==
    /\ dpc = "looped"
    /\ Truthy(duration)
    /\ dpc' = "done"
    /\ UNCHANGED <<ditem, duration, scrapeVars>>

\* Lines 208-212
DurFallback ==
    /\ dpc = "looped"
    /\ ~Truthy(duration)
    /\ duration' = DurationFromText(duration, ditem.text)
    /\ dpc' = "done"
    /\ UNCHANGED <<ditem, scrapeVars>>

NextDuration == DurSelectors \/ DurKeep \/ DurFallback

SpecDuration == InitDuration /\ [][NextDuration]_vars

(***************************************************************************)
(* Properties                                                              *)
(***************************************************************************)
\* scrape_imdb_generic has returned its DataFrame.
Returned == pc \in {"returned", "shown"}

\* The Locator has run.
Located == pc \in {"gathered", "extracted", "rows", "returned", "shown"}

\* A row of the Dataset without its No.
StripNo(row) == [c \in DOMAIN row \ {"No."} |-> row[c]]

DataRecs == [i \in 1..Len(df.data) |-> StripNo(df.data[i])]

\* The pair the Dataset is keyed by: the stripped, lowercased Title and the
\* Year as a string, "" when missing.
KeyOf(r) ==
    <<Lower(Strip(r.Title)), IF r.Year = None THEN <<>> ELSE IntToStr(r.Year[1])>>

Faulty(el) == Raises[doc[el].mk]

RecOf(el) == Records[doc[el].mk]

Titled(el) == ~Faulty(el) /\ RecOf(el).Title # <<>>

Structural(k) == doc[k].pats # {}

\* The items of the pass that filled rows: the Locator's, or the parents of
\* the anchors when the branch of line 308 ran.
PassItems ==
    IF fellBack THEN Uniq(doc, AnchorParents(doc, 1), 1, <<>>) ELSE containers

\* The records of the titled items of els, in the order of els.
RECURSIVE TitledOf(_, _)
TitledOf(els, k) ==
    IF k > Len(els) THEN <<>>
    ELSE (IF Titled(els[k]) THEN <<RecOf(els[k])>> ELSE <<>>) \o TitledOf(els, k + 1)

\* rs without the records whose key an earlier record of rs has.
RECURSIVE FirstOccurrences(_, _)
FirstOccurrences(rs, k) ==
    IF k > Len(rs) THEN <<>>
    ELSE (IF \E j \in 1..(k - 1) : KeyOf(rs[j]) = KeyOf(rs[k])
          THEN <<>> ELSE <<rs[k]>>) \o FirstOccurrences(rs, k + 1)

\* els with each element reference kept once, at its first position.
RECURSIVE FirstSeen(_, _)
FirstSeen(els, k) ==
    IF k > Len(els) THEN <<>>
    ELSE (IF \E j \in 1..(k - 1) : els[j] = els[k] THEN <<>> ELSE <<els[k]>>)
           \o FirstSeen(els, k + 1)

\* C1: no two rows of the returned Dataset have the same (stripped,
\* lowercased Title, Year as a string with "" for a missing Year) pair, and
\* of the extracted records that share a pair the row is the first one.
C1_NoDuplicateKeys ==
    Returned =>
      /\ \A i, j \in 1..Len(df.data) :
           i < j => KeyOf(df.data[i]) # KeyOf(df.data[j])
      /\ \A k \in 1..Len(rows) :
           LET f == CHOOSE j \in 1..k :
                      /\ KeyOf(rows[j]) = KeyOf(rows[k])
                      /\ \A h \in 1..(j - 1) : KeyOf(rows[h]) # KeyOf(rows[k])
           IN  \E i \in 1..Len(df.data) : DataRecs[i] = rows[f]

C1_Witness ==
    /\ Returned
    /\ \E j, k \in 1..Len(rows) :
         /\ j < k
         /\ KeyOf(rows[j]) = KeyOf(rows[k])
         /\ rows[j].Title # rows[k].Title
         /\ \E i \in 1..Len(df.data) : DataRecs[i] = rows[j]

\* C2: the No. column of a returned Dataset of N rows is 1..N in row order
\* (N = 0 included), whatever was dropped or discarded before.
C2_DenseNumbering ==
    Returned =>
      /\ \E c \in 1..Len(df.columns) : df.columns[c] = "No."
      /\ [i \in 1..Len(df.data) |-> df.data[i]["No."]] = [i \in 1..Len(df.data) |-> i]

C2_Witness ==
    /\ Returned
    /\ Len(df.data) >= 2
    /\ \E j, k \in 1..Len(rows) :
         /\ j < k
         /\ \E h \in 1..(j - 1) : KeyOf(rows[h]) = KeyOf(rows[j])
         /\ \E i \in 1..Len(df.data) : DataRecs[i] = rows[k]

\* C3: every row of the returned Dataset has a non-empty Title, on the
\* selector path and on the anchor path, whatever else the item resolved.
C3_TitledRows ==
    Returned => \A i \in 1..Len(df.data) : df.data[i]["Title"] # <<>>

C3_Witness ==
    /\ Returned
    /\ fellBack
    /\ df.data # <<>>
    /\ \E k \in 1..Len(containers) :
         /\ ~Faulty(containers[k])
         /\ RecOf(containers[k]).Title = <<>>
         /\ RecOf(containers[k]).Year # None
         /\ RecOf(containers[k]).Duration # None
    /\ \E k \in 1..Len(PassItems) :
         /\ ~Structural(PassItems[k])
         /\ ~Faulty(PassItems[k])
         /\ RecOf(PassItems[k]).Title = <<>>
         /\ RecOf(PassItems[k]).Year # None

\* No structural selector matches and no title-detail anchor exists.
Unrecognised == \A k \in 1..Len(doc) : ~Structural(k) /\ doc[k].anch = 0

\* C4: for a fetched document without a structural match and without a
\* title-detail anchor the Locator returns the empty sequence, and
\* scrape_imdb_generic returns zero rows under the seven columns, without
\* raising.
C4_EmptyDataset ==
    (Located /\ Unrecognised) =>
      /\ containers = <<>>
      /\ exc = "none"
      /\ Returned =>
           /\ df.data = <<>>
           /\ df.columns = <<"No.", "Title", "Year", "Duration", "Age", "Rating", "Votes">>

C4_Witness ==
    /\ pc = "shown"
    /\ status = 200
    /\ Len(doc) >= 2
    /\ Unrecognised
    /\ ui = "warning"

\* C5 as stated: after a non-2xx response scrape_imdb_generic returns an
\* empty result and no fault reaches its caller.
C5_Original ==
    (status # 0 /\ status \notin 200..299) =>
      /\ exc = "none"
      /\ Returned => df.data = <<>>

\* C5 amended: after a 4xx or 5xx response scrape_imdb_generic returns no
\* Dataset at all; the HTTPError of _get_soup reaches its caller, which
\* shows it as an error message.  No other status raises.
C5_FaultPropagates ==
    /\ (status >= 400 /\ status < 600) =>
         /\ pc \in {"raised", "stopped"}
         /\ exc = "HTTPError"
         /\ df = NoFrame
         /\ rows = <<>>
         /\ pc = "stopped" => ui = "error"
    /\ ~(status >= 400 /\ status < 600) =>
         /\ pc \notin {"raised", "stopped"}
         /\ exc = "none"

C5_Witness ==
    /\ pc = "stopped"
    /\ status = 404
    /\ exc = "HTTPError"
    /\ ui = "error"

\* C6: when the extraction of an item raises, scrape_imdb_generic still
\* returns, and every other titled item of the batch is in the Dataset: as
\* its own record, or, when an earlier item of the batch has its key, as
\* the row of that key.
C6_FaultSkipsOneItem ==
    (Returned /\ \E k \in 1..Len(PassItems) : Faulty(PassItems[k])) =>
      /\ exc = "none"
      /\ \A k \in 1..Len(PassItems) :
           Titled(PassItems[k]) =>
             IF \E j \in 1..(k - 1) :
                  /\ Titled(PassItems[j])
                  /\ KeyOf(RecOf(PassItems[j])) = KeyOf(RecOf(PassItems[k]))
             THEN \E i \in 1..Len(df.data) :
                    KeyOf(df.data[i]) = KeyOf(RecOf(PassItems[k]))
             ELSE \E i \in 1..Len(df.data) : DataRecs[i] = RecOf(PassItems[k])

C6_Witness ==
    /\ Returned
    /\ Len(containers) = 3
    /\ Titled(containers[1])
    /\ Faulty(containers[2])
    /\ Titled(containers[3])
    /\ Len(df.data) = 2

\* C8 as stated: the rows are the titled records of the items the Locator
\* produced, in its order, less the later duplicates of a key.
C8_Original ==
    Returned => DataRecs = FirstOccurrences(TitledOf(containers, 1), 1)

\* C8 amended: the rows are the titled records of the items in the order
\* they were discovered (the Locator's order, or the document order of the
\* anchors when no item of the Locator gave a titled record), less
\* the later duplicates of a key.
C8_DiscoveryOrder ==
    Returned => DataRecs = FirstOccurrences(TitledOf(PassItems, 1), 1)

C8_Witness ==
    /\ Returned
    /\ ~fellBack
    /\ Len(containers) = 3
    /\ containers[1] > containers[3]
    /\ \A k \in 1..3 : Titled(containers[k])
    /\ KeyOf(RecOf(containers[1])) = KeyOf(RecOf(containers[2]))
    /\ RecOf(containers[1]) # RecOf(containers[2])
    /\ Len(df.data) = 2

C10_Original ==
    (Returned /\ \E k \in 1..Len(doc) : Structural(k)) =>
      ~(df.data # <<>> /\ (fellBack \/ locMode = "anchors"))

\* C10 amended: the Locator turns to the anchors only when no structural
\* selector matches, and scrape_imdb_generic turns to them only when no
\* item of the Locator gave a titled record: when a structurally matched
\* node gives a titled record, no row comes from a container derived from
\* an anchor.
C10_AnchorsOnlyWithoutRows ==
    /\ (Located /\ \E k \in 1..Len(doc) : Structural(k)) => locMode = "selectors"
    /\ (Returned /\ \E k \in 1..Len(doc) : Structural(k) /\ Titled(k)) =>
         /\ ~fellBack
         /\ locMode = "selectors"
         /\ \A i \in 1..Len(df.data) :
              \E k \in 1..Len(doc) : Structural(k) /\ Titled(k) /\ DataRecs[i] = RecOf(k)

C10_Witness ==
    /\ Returned
    /\ \E k \in 1..Len(doc) : Structural(k) /\ Titled(k)
    /\ \E k \in 1..Len(doc) :
         /\ ~Structural(k)
         /\ doc[k].anch > 0
         /\ Titled(k)
         /\ \A i \in 1..Len(df.data) : KeyOf(df.data[i]) # KeyOf(RecOf(k))

\* C7 as stated: the Duration an item's cascade ends with is null or a
\* strictly positive number of minutes, never 0.
C7_Original ==
    dpc = "done" => (duration = None \/ duration[1] > 0)
====
